---------------------------- MODULE Spec2Model ----------------------------
(***************************************************************************)
(* Model of foram.py: the growth of a foraminifera as a sequence of        *)
(* circular chambers (classes Chamber and Foram).                          *)
(*                                                                         *)
(* Numbers.  The program computes in IEEE doubles (Vec builds arrays of    *)
(* dtype=float).  The model computes in binary fixed point: the integer n  *)
(* stands for the real n / Scale, every product, quotient and square root  *)
(* is rounded to that grid, and NaN, which the program produces by 0/0 and *)
(* by the square root of a negative number, is kept as a value of its own  *)
(* that makes every comparison false, as IEEE comparison does.             *)
(***************************************************************************)
EXTENDS Integers, Sequences, FiniteSets

\* ------------------------------------------------------------------ bounds
MaxChambers == 4
MaxCalls == 2
Tol == 4
TangentTol == 256

\* ----------------------------------------------------------- fixed point
Scale == 4096

Abs(a) == IF a < 0 THEN -a ELSE a

Sign(a, b) == IF (a < 0) = (b < 0) THEN 1 ELSE -1

\* a * b, rounded to the nearest grid point
Mul(a, b) == Sign(a, b) * ((Abs(a) * Abs(b) + Scale \div 2) \div Scale)

\* a / b for b # 0, rounded to the nearest grid point
Div(a, b) == Sign(a, b) * ((Abs(a) * Scale + Abs(b) \div 2) \div Abs(b))

RECURSIVE Bisect(_, _, _)
Bisect(n, lo, hi) ==
    IF lo >= hi THEN lo
    ELSE LET mid == (lo + hi + 1) \div 2
         IN  IF mid * mid <= n THEN Bisect(n, mid, hi) ELSE Bisect(n, lo, mid - 1)

\* the integer square root of n >= 0 (46340 is the largest root of a 32-bit n)
ISqrt(n) == Bisect(n, 0, IF n < 46340 THEN n ELSE 46340)

\* np.sqrt of a >= 0 (the caller decides the NaN of a negative a)
Sqrt(a) == ISqrt(a * Scale)

\* ---------------------------------------------------------------- vectors
Vec(x, y) == [k |-> "vec", x |-> x, y |-> y]

NaNVec == [k |-> "nan", x |-> 0, y |-> 0]

NoneVal == [k |-> "None", x |-> 0, y |-> 0]

IsNaN(P) == P.k = "nan"

IsVec(P) == P.k = "vec"

VAdd(P, Q) == IF IsVec(P) /\ IsVec(Q) THEN Vec(P.x + Q.x, P.y + Q.y) ELSE NaNVec

VSub(P, Q) == IF IsVec(P) /\ IsVec(Q) THEN Vec(P.x - Q.x, P.y - Q.y) ELSE NaNVec

\* np.linalg.norm of a vector that is not NaN
Norm(P) == Sqrt(Mul(P.x, P.x) + Mul(P.y, P.y))

\* np.linalg.norm(P - Q) < bound; false when the norm is NaN
DistLess(P, Q, bound) == IsVec(P) /\ IsVec(Q) /\ Norm(VSub(P, Q)) < bound

\* np.cos and np.sin, on the arguments (radians, in fixed point) the model uses:
\* the angles 0, 90, 150, 180 and 360 taken as radians, and the same angles
\* converted from degrees by Radians.
Cos(x) ==
    CASE x = 0       -> 4096
      [] x = 368640  -> -1835
      [] x = 614400  -> 2864
      [] x = 737280  -> -2451
      [] x = 1474560 -> -1162
      [] x = 6434    -> 0
      [] x = 10723   -> -3547
      [] x = 12868   -> -4096
      [] x = 25736   -> 4096

Sin(x) ==
    CASE x = 0       -> 0
      [] x = 368640  -> 3662
      [] x = 614400  -> -2928
      [] x = 737280  -> -3282
      [] x = 1474560 -> 3928
      [] x = 6434    -> 4096
      [] x = 10723   -> 2048
      [] x = 12868   -> 0
      [] x = 25736   -> 0

Pi == 12868

\* np.radians of a whole number of degrees
Radians(deg) == (deg * Pi + 90) \div 180

\* a whole number as a fixed-point number
Fix(n) == n * Scale

\* ---------------------------------------------------------------- Chamber
Chamber(radius, centre, aperture_in) ==
    [radius |-> radius, centre |-> centre, aperture_in |-> aperture_in,
     aperture_out |-> NoneVal, r |-> NoneVal]

set_aperture_out(ch, aperture_out) ==
    [ch EXCEPT !.aperture_out = aperture_out,
               !.r = VSub(aperture_out, ch.centre)]

\* what intersection returns or raises
NoIntersection == [tag |-> "None", p1 |-> NoneVal, p2 |-> NoneVal]

Raised == [tag |-> "ValueError", p1 |-> NoneVal, p2 |-> NoneVal]

Pair(p1, p2) == [tag |-> "pair", p1 |-> p1, p2 |-> p2]

\* a of line 58, for a distance d # 0
Along(r0, r1, d) == Div(Div(Mul(d, d) + Mul(r0, r0) - Mul(r1, r1), Fix(2)), d)

\* P2 of line 60
BasePoint(P0, P1, a, d) ==
    Vec(P0.x + Mul(Div(a, d), P1.x - P0.x), P0.y + Mul(Div(a, d), P1.y - P0.y))

\* lines 58-64, for a distance d that is a number
TwoPoints(P0, P1, r0, r1, d) ==
    IF d = 0 THEN Pair(NaNVec, NaNVec)               \* a = 0 / 2 / 0
    ELSE LET a  == Along(r0, r1, d)
             h2 == Mul(r0, r0) - Mul(a, a)
         IN  IF h2 < 0 THEN Pair(NaNVec, NaNVec)     \* h = np.sqrt(negative)
             ELSE LET h  == Sqrt(h2)
                      P2 == BasePoint(P0, P1, a, d)
                      W  == Vec(Mul(Div(h, d), P0.y - P1.y),
                                Mul(Div(h, d), P1.x - P0.x))
                  IN  Pair(VAdd(P2, W), VSub(P2, W))

\* intersection without the test of line 53: a circle inside the other is
\* taken for one that does not intersect
intersection_NoRaise(self, other) ==
    LET P0 == self.centre
        P1 == other.centre
        r0 == self.radius
        r1 == other.radius
    IN  IF IsNaN(P0) \/ IsNaN(P1)
        THEN Pair(NaNVec, NaNVec)
        ELSE LET d == Norm(VSub(P1, P0))
             IN  IF d > r0 + r1 \/ d < Abs(r0 - r1) THEN NoIntersection
                 ELSE TwoPoints(P0, P1, r0, r1, d)

intersection(self, other) ==
    LET P0 == self.centre
        P1 == other.centre
        r0 == self.radius
        r1 == other.radius
    IN  IF IsNaN(P0) \/ IsNaN(P1)
        THEN Pair(NaNVec, NaNVec)                    \* d is NaN: no test succeeds
        ELSE LET d == Norm(VSub(P1, P0))
             IN  IF d > r0 + r1 THEN NoIntersection
                 ELSE IF d < Abs(r0 - r1) THEN Raised
                 ELSE TwoPoints(P0, P1, r0, r1, d)

\* ------------------------------------------------------------------ Foram
\* 0.999, the factor of in_chamber
Shrink == 4092

\* in_chamber that looks at the last chamber only
in_chamber_LastOnly(chs, P) ==
    DistLess(P, chs[Len(chs)].centre, Mul(chs[Len(chs)].radius, Shrink))

in_chamber(chs, P) ==
    \E n \in 1..Len(chs) : DistLess(P, chs[n].centre, Mul(chs[n].radius, Shrink))

\* the points one chamber adds to the list intersections (lines 138-146)
Kept(chs, ret) ==
    IF ret.tag # "pair" THEN << >>
    ELSE (IF in_chamber(chs, ret.p1) THEN << >> ELSE << ret.p1 >>)
         \o (IF in_chamber(chs, ret.p2) THEN << >> ELSE << ret.p2 >>)

RECURSIVE Collect(_, _, _)
Collect(chs, new_chamber, n) ==
    IF n > Len(chs) THEN << >>
    ELSE Kept(chs, intersection(chs[n], new_chamber)) \o Collect(chs, new_chamber, n + 1)

\* the list intersections before it is sorted
Intersections(chs, new_chamber) == Collect(chs, new_chamber, 1)

\* the sort key of line 149-150: a distance, or NaN (here -1)
SortKey(new_chamber, e) ==
    IF IsVec(new_chamber.aperture_in) /\ IsVec(e)
    THEN Norm(VSub(new_chamber.aperture_in, e))
    ELSE -1

\* a sort that is not stable: e is put before the elements of equal key
RECURSIVE Insert_BeforeEqual(_, _, _)
Insert_BeforeEqual(new_chamber, e, s) ==
    IF s = << >> THEN << e >>
    ELSE IF SortKey(new_chamber, e) <= SortKey(new_chamber, Head(s))
         THEN << e >> \o s
         ELSE << Head(s) >> \o Insert_BeforeEqual(new_chamber, e, Tail(s))

\* e put into the sorted list s, after every element whose key is not larger
RECURSIVE Insert(_, _, _)
Insert(new_chamber, e, s) ==
    IF s = << >> THEN << e >>
    ELSE IF SortKey(new_chamber, e) < SortKey(new_chamber, Head(s))
         THEN << e >> \o s
         ELSE << Head(s) >> \o Insert(new_chamber, e, Tail(s))

\* list.sort: stable, ascending in the key (all keys numbers)
RECURSIVE Sorted(_, _)
Sorted(new_chamber, s) ==
    IF s = << >> THEN << >>
    ELSE Insert(new_chamber, s[Len(s)], Sorted(new_chamber, SubSeq(s, 1, Len(s) - 1)))

Range(s) == {s[n] : n \in 1..Len(s)}

\* find_aperture_out that lets a ValueError pass only when the last chamber
\* raises it
find_aperture_out_LastRaises(chs, new_chamber) ==
    IF intersection(chs[Len(chs)], new_chamber).tag = "ValueError"
    THEN [exc |-> "ValueError", out |-> {}]
    ELSE LET is == Intersections(chs, new_chamber)
         IN  IF is = << >> THEN [exc |-> "IndexError", out |-> {}]
             ELSE IF \E n \in 1..Len(is) : SortKey(new_chamber, is[n]) = -1
                  THEN [exc |-> "none", out |-> Range(is)]
                  ELSE [exc |-> "none", out |-> {Sorted(new_chamber, is)[1]}]

\* find_aperture_out: the exception it raises, or the points it may return.
\* With a NaN among the keys the comparisons of the sort are inconsistent and
\* the order it leaves is not defined by the language: any element may be first.
find_aperture_out(chs, new_chamber) ==
    IF \E n \in 1..Len(chs) : intersection(chs[n], new_chamber).tag = "ValueError"
    THEN [exc |-> "ValueError", out |-> {}]
    ELSE LET is == Intersections(chs, new_chamber)
         IN  IF is = << >> THEN [exc |-> "IndexError", out |-> {}]
             ELSE IF \E n \in 1..Len(is) : SortKey(new_chamber, is[n]) = -1
                  THEN [exc |-> "none", out |-> Range(is)]
                  ELSE [exc |-> "none", out |-> {Sorted(new_chamber, is)[1]}]

\* rot.dot(v) for the matrix ((c, -s), (s, c))
Rotate(rt, v) ==
    IF IsVec(v) THEN Vec(Mul(rt.c, v.x) - Mul(rt.s, v.y), Mul(rt.s, v.x) + Mul(rt.c, v.y))
    ELSE NaNVec

VScale(t, v) == IF IsVec(v) THEN Vec(Mul(t, v.x), Mul(t, v.y)) ELSE NaNVec

\* the rotation matrix of __init__ (lines 105-106), from the argument DeltaPhi
RotOf(angle) == [c |-> Cos(Fix(angle)), s |-> Sin(Fix(angle))]

\* a step that grows the radius from the first chamber, not from the last
NewChamber_FirstRadius(chs, gf, tf, rt, n) ==
    LET last_chamber == chs[n]
        radius == Mul(gf, chs[1].radius)
        v == VScale(tf, Rotate(rt, last_chamber.r))
        centre == VAdd(last_chamber.aperture_out, v)
    IN  Chamber(radius, centre, last_chamber.aperture_out)

\* the chamber that step i of make_foram builds (lines 112-118)
NewChamber(chs, gf, tf, rt, n) ==
    LET last_chamber == chs[n]
        radius == Mul(gf, last_chamber.radius)
        v == VScale(tf, Rotate(rt, last_chamber.r))
        centre == VAdd(last_chamber.aperture_out, v)
    IN  Chamber(radius, centre, last_chamber.aperture_out)

\* range(1, nchambers + 1)
LoopRange_Inclusive(n) == 1..n

\* range(1, nchambers)
LoopRange(n) == 1..(n - 1)

proloculus == set_aperture_out(Chamber(Fix(1), Vec(0, 0), NoneVal), Vec(Fix(1), 0))

\* ------------------------------------------------------------------ state
VARIABLES
    nchambers,   \* self.nchambers
    GF,          \* self.GF
    TF,          \* self.TF
    angle,       \* the argument DeltaPhi of __init__, in degrees
    DeltaPhi,    \* self.DeltaPhi
    rot,         \* self.rot
    chambers,    \* self.chambers
    pc,          \* where make_foram is
    i,           \* the loop variable of make_foram
    calls,       \* the calls of make_foram so far
    circles,     \* the two chambers given to one call of intersection
    ret          \* what that call gave

vars == << nchambers, GF, TF, angle, DeltaPhi, rot, chambers, pc, i, calls, circles, ret >>

params == << nchambers, GF, TF, angle, DeltaPhi, rot >>

GFSet == {4096, 5120, 6144}        \* 1, 1.25, 1.5

TFSet == {512, 2048, 4096, 12288}  \* 0.125, 0.5, 1, 3

AngleSet == {0, 90, 150, 180, 360}

NoCircles == << proloculus, proloculus >>

Unused == [tag |-> "unused", p1 |-> NoneVal, p2 |-> NoneVal]

Pending == [tag |-> "pending", p1 |-> NoneVal, p2 |-> NoneVal]

\* Foram.__init__
Init ==
    /\ nchambers \in 0..MaxChambers
    /\ GF \in GFSet
    /\ TF \in TFSet
    /\ angle \in AngleSet
    /\ DeltaPhi = Radians(angle)
    /\ rot = RotOf(angle)
    /\ chambers = << proloculus >>
    /\ pc = "constructed"
    /\ i = 0
    /\ calls = 0
    /\ circles = NoCircles
    /\ ret = Unused

\* make_foram is called on the new object
make_foram ==
    /\ pc = "constructed"
    /\ pc' = "for"
    /\ i' = 1
    /\ calls' = calls + 1
    /\ UNCHANGED << params, chambers, circles, ret >>

\* one pass of the loop that appends a chamber
AppendChamber ==
    /\ pc = "for"
    /\ i \in LoopRange(nchambers)
    /\ LET chamber == NewChamber(chambers, GF, TF, rot, i)
           found == find_aperture_out(chambers, chamber)
       IN  /\ found.exc = "none"
           /\ \E aperture_out \in found.out :
                 chambers' = Append(chambers, set_aperture_out(chamber, aperture_out))
    /\ i' = i + 1
    /\ UNCHANGED << params, pc, calls, circles, ret >>

\* one pass of the loop that catches ValueError and breaks
Break ==
    /\ pc = "for"
    /\ i \in LoopRange(nchambers)
    /\ find_aperture_out(chambers, NewChamber(chambers, GF, TF, rot, i)).exc = "ValueError"
    /\ pc' = "break"
    /\ UNCHANGED << params, chambers, i, calls, circles, ret >>

\* one pass of the loop in which intersections[0] raises IndexError
Escape ==
    /\ pc = "for"
    /\ i \in LoopRange(nchambers)
    /\ find_aperture_out(chambers, NewChamber(chambers, GF, TF, rot, i)).exc = "IndexError"
    /\ pc' = "IndexError"
    /\ UNCHANGED << params, chambers, i, calls, circles, ret >>

\* the range is exhausted: make_foram returns
Exhausted ==
    /\ pc = "for"
    /\ i \notin LoopRange(nchambers)
    /\ pc' = "exhausted"
    /\ UNCHANGED << params, chambers, i, calls, circles, ret >>

Next == make_foram \/ AppendChamber \/ Break \/ Escape \/ Exhausted

Spec == Init /\ [][Next]_vars

\* a second call of make_foram on an object whose first call has returned
make_foram_again ==
    /\ pc \in {"exhausted", "break"}
    /\ calls < MaxCalls
    /\ pc' = "for"
    /\ i' = 1
    /\ calls' = calls + 1
    /\ UNCHANGED << params, chambers, circles, ret >>

NextTwice == make_foram \/ AppendChamber \/ Break \/ Escape \/ Exhausted \/ make_foram_again

SpecTwice == Init /\ [][NextTwice]_vars

\* ------------------------------------------------- the states of the growth
InLoop == pc = "for" /\ i \in LoopRange(nchambers)

COMPLETE == pc = "exhausted"

STOPPED_EARLY == pc = "break"

Ended == pc \in {"exhausted", "break", "IndexError"}

\* the chamber the pass of the loop at hand is about to place
Candidate == NewChamber(chambers, GF, TF, rot, i)

\* the centre distance is a number below |r_j - r_i|: one circle is inside the other
Infeasible(cj, ci) ==
    /\ IsVec(cj.centre)
    /\ IsVec(ci.centre)
    /\ Norm(VSub(ci.centre, cj.centre)) < Abs(cj.radius - ci.radius)

\* ---------------------------------------------------------------------- C10
\* C10: in every state of a single make_foram, chambers[0] is the proloculus
\* (radius 1, centre (0,0), out aperture (1,0), in aperture None), every later
\* chamber has radius GF times the radius of the one before it and the out
\* aperture of the one before it as its in aperture, and no step changes or
\* removes a chamber that is already in the list.
C10_SeedAndRecurrence ==
    /\ [](/\ Len(chambers) >= 1
          /\ chambers[1].radius = Scale
          /\ chambers[1].centre = Vec(0, 0)
          /\ chambers[1].aperture_out = Vec(Scale, 0)
          /\ chambers[1].aperture_in = NoneVal
          /\ \A n \in 2..Len(chambers) :
                /\ chambers[n].radius = Mul(GF, chambers[n - 1].radius)
                /\ chambers[n].aperture_in = chambers[n - 1].aperture_out)
    /\ [][/\ Len(chambers') >= Len(chambers)
          /\ SubSeq(chambers', 1, Len(chambers)) = chambers]_vars

C10_Witness == COMPLETE /\ Len(chambers) >= 3 /\ GF # Scale

\* ----------------------------------------------------------------------- C3
\* C3: when, in step i, some earlier chamber and the candidate are infeasible
\* (centre distance below |r_j - r_i|), the step appends nothing, chambers 0..i-1
\* stay as they are, make_foram returns by the break with chamber i-1 as the
\* last one, and nothing is done after that.
C3_InfeasibleAborts ==
    [][/\ (InLoop /\ \E j \in 1..Len(chambers) : Infeasible(chambers[j], Candidate))
            => (chambers' = chambers /\ STOPPED_EARLY' /\ Len(chambers') = i)
       /\ STOPPED_EARLY => (chambers' = chambers /\ STOPPED_EARLY')]_vars

\* growth broken off in a step whose candidate met a feasible chamber first,
\* which gave it points, and an infeasible one after it
C3_Witness ==
    /\ STOPPED_EARLY
    /\ \E j \in 2..Len(chambers) :
          /\ Infeasible(chambers[j], Candidate)
          /\ Kept(chambers, intersection(chambers[1], Candidate)) # << >>

\* ----------------------------------------------------------------------- C2
\* C2: a step in which no earlier chamber is infeasible and no intersection
\* point passes the test of in_chamber ends make_foram normally, by the break:
\* nothing is appended, the chambers stay, no exception reaches the caller.
C2_NoSurvivorStopsEarly ==
    [][(/\ InLoop
        /\ \A j \in 1..Len(chambers) : ~Infeasible(chambers[j], Candidate)
        /\ Intersections(chambers, Candidate) = << >>)
           => (STOPPED_EARLY' /\ chambers' = chambers)]_vars

RotDegrees == [c |-> Cos(Radians(angle)), s |-> Sin(Radians(angle))]

\* C7: the angle given in degrees is converted to radians, and the centre of
\* every chamber placed is the out aperture of the one before it plus TF times
\* the rotation, by that angle in degrees, of its offset r.
C7_RotationByDegrees ==
    /\ DeltaPhi = Radians(angle)
    /\ \A n \in 2..Len(chambers) :
          chambers[n].centre =
              VAdd(chambers[n - 1].aperture_out,
                   VScale(TF, Rotate(RotDegrees, chambers[n - 1].r)))

\* ----------------------------------------------------------------------- C1
\* C1: a second call of make_foram leaves the list of chambers as the first
\* call left it, or reports an error.
C1_SecondCallChangesNothing ==
    [][calls >= 2 => (chambers' = chambers \/ pc' = "IndexError")]_vars

\* ----------------------------------------------------------------------- C4
OnOwnBoundary(ch) ==
    /\ IsVec(ch.aperture_out)
    /\ IsVec(ch.centre)
    /\ Abs(Norm(VSub(ch.aperture_out, ch.centre)) - ch.radius) <= Tol

\* C4: the out aperture of every chamber in the list lies on the chamber's own
\* circle and in the open interior of no other chamber of the list, placed
\* before it or after it.
C4_ExitOutsideEveryOther ==
    \A n \in 1..Len(chambers) :
        /\ OnOwnBoundary(chambers[n])
        /\ \A m \in 1..Len(chambers) :
              m # n => ~DistLess(chambers[n].aperture_out, chambers[m].centre,
                                 chambers[m].radius)

\* C4, amended: the out aperture of every chamber in the list, unless it is
\* NaN, lies on the chamber's own circle (within the tolerance of the
\* arithmetic) and is closer than 0.999 times the radius to the centre of no
\* chamber placed before it.
C4_ExitOutsideEarlier ==
    \A n \in 1..Len(chambers) :
        ~IsNaN(chambers[n].aperture_out) =>
            /\ OnOwnBoundary(chambers[n])
            /\ \A m \in 1..(n - 1) :
                  ~DistLess(chambers[n].aperture_out, chambers[m].centre,
                            Mul(chambers[m].radius, Shrink))

C4_Witness ==
    /\ COMPLETE
    /\ Len(chambers) >= 4
    /\ \A n \in 1..Len(chambers) : IsVec(chambers[n].aperture_out)

\* ----------------------------------------------------------------------- C5
\* C5: after make_foram, the centre of no chamber is closer than 0.999 times
\* the radius to the centre of another chamber of the list.
C5_CentresOutsideEachOther ==
    (COMPLETE \/ STOPPED_EARLY) =>
        \A m, n \in 1..Len(chambers) :
            m # n => ~DistLess(chambers[n].centre, chambers[m].centre,
                               Mul(chambers[m].radius, Shrink))

\* C5, amended: after make_foram, of no two chambers of the list is one
\* strictly inside the other: the distance of their centres is not less
\* than |r_i - r_j|.
C5_NoChamberInsideAnother ==
    (COMPLETE \/ STOPPED_EARLY) =>
        \A m, n \in 1..Len(chambers) :
            m # n => ~Infeasible(chambers[m], chambers[n])

C5_Witness ==
    /\ COMPLETE
    /\ \E m, n \in 1..Len(chambers) :
          /\ m # n
          /\ DistLess(chambers[n].centre, chambers[m].centre,
                      Mul(chambers[m].radius, Shrink))

\* ----------------------------------------------------------------------- C6
\* s * (h/d) * (dy, -dx) for (dx, dy) = centre of other minus centre of self
PerpOffset(self, other, s) ==
    LET d == Norm(VSub(other.centre, self.centre))
        a == Along(self.radius, other.radius, d)
        h == Sqrt(Mul(self.radius, self.radius) - Mul(a, a))
    IN  Vec(s * Mul(Div(h, d), other.centre.y - self.centre.y),
            s * Mul(Div(h, d), -(other.centre.x - self.centre.x)))

BaseOf(self, other) ==
    LET d == Norm(VSub(other.centre, self.centre))
    IN  BasePoint(self.centre, other.centre, Along(self.radius, other.radius, d), d)

\* every point of the step that placed new after prior is a number
AllNumbers(prior, new) ==
    /\ IsVec(new.aperture_in)
    /\ \A j \in 1..Len(prior) :
          LET got == intersection(prior[j], new)
          IN  got.tag = "pair" => (IsVec(got.p1) /\ IsVec(got.p2))

Outside(prior, P) == IF in_chamber(prior, P) THEN << >> ELSE << P >>

\* the surviving points in the order: j ascending, base + W before base - W,
\* for W = s * (h/d) * (dy, -dx)
RECURSIVE Enumerated(_, _, _, _)
Enumerated(prior, new, s, j) ==
    IF j > Len(prior) THEN << >>
    ELSE (IF intersection(prior[j], new).tag = "pair"
          THEN Outside(prior, VAdd(BaseOf(prior[j], new), PerpOffset(prior[j], new, s)))
               \o Outside(prior, VSub(BaseOf(prior[j], new), PerpOffset(prior[j], new, s)))
          ELSE << >>)
         \o Enumerated(prior, new, s, j + 1)

EntryDistance(new, P) == Norm(VSub(new.aperture_in, P))

\* the first point of ps that is as close to the in aperture as any
FirstClosest(new, ps) ==
    ps[CHOOSE n \in 1..Len(ps) :
          /\ \A m \in 1..Len(ps) : EntryDistance(new, ps[n]) <= EntryDistance(new, ps[m])
          /\ \A m \in 1..(n - 1) : EntryDistance(new, ps[m]) > EntryDistance(new, ps[n])]

ChosenAsEnumerated(s) ==
    \A n \in 2..Len(chambers) :
        LET prior == SubSeq(chambers, 1, n - 1)
            new == chambers[n]
        IN  AllNumbers(prior, new) =>
                new.aperture_out = FirstClosest(new, Enumerated(prior, new, s, 1))

\* C6: the out aperture of a new chamber is the surviving point closest to
\* its in aperture, and of several at the same distance the first in the
\* order: j ascending, base + W before base - W, for W = (h/d) * (dy, -dx).
C6_TieOrderPlusW == ChosenAsEnumerated(1)

\* C6, amended: when every intersection point of the step is a number (none
\* is NaN), the out aperture of a new chamber is the surviving point closest to
\* its in aperture, and of several at the same distance the first in the
\* order: j ascending, base + W before base - W, for W = (h/d) * (-dy, dx).
C6_TieOrderMinusW == ChosenAsEnumerated(-1)

\* a chamber placed where two different surviving points were equally close
C6_Witness ==
    \E n \in 2..Len(chambers) :
        LET prior == SubSeq(chambers, 1, n - 1)
            new == chambers[n]
            ps == Enumerated(prior, new, -1, 1)
        IN  /\ AllNumbers(prior, new)
            /\ \E a, b \in 1..Len(ps) :
                  /\ ps[a] # ps[b]
                  /\ ps[a] = new.aperture_out
                  /\ EntryDistance(new, ps[a]) = EntryDistance(new, ps[b])

\* ------------------------------------------- intersection, called by itself
RadiusSet == {1229, 2048, 4096, 8192}     \* 0.3, 0.5, 1, 2

CentreSet == {Vec(0, 0), Vec(-2048, 4096)}

\* the centre of other, from the centre of self: 0, 0.8, 1, 1.5, 3 along x,
\* and (0.5, -0.5), (0, 2.5), (3, 4)
OffsetSet ==
    {Vec(0, 0), Vec(3277, 0), Vec(4096, 0), Vec(6144, 0), Vec(12288, 0),
     Vec(2048, -2048), Vec(0, 10240), Vec(12288, 16384)}

InitIntersection ==
    /\ nchambers = 0
    /\ GF = Scale
    /\ TF = Scale
    /\ angle = 0
    /\ DeltaPhi = Radians(0)
    /\ rot = RotOf(0)
    /\ chambers = << proloculus >>
    /\ pc = "constructed"
    /\ i = 0
    /\ calls = 0
    /\ \E r0, r1 \in RadiusSet, P0 \in CentreSet, off \in OffsetSet :
          circles = << Chamber(r0, P0, NoneVal), Chamber(r1, VAdd(P0, off), NoneVal) >>
    /\ ret = Pending

\* circles[1].intersection(circles[2])
CallIntersection ==
    /\ ret = Pending
    /\ ret' = intersection(circles[1], circles[2])
    /\ UNCHANGED << params, chambers, pc, i, calls, circles >>

NextIntersection == CallIntersection

SpecIntersection == InitIntersection /\ [][NextIntersection]_vars

\* ----------------------------------------------------------------------- C9
OnCircle(P, ch) == IsVec(P) /\ Abs(Norm(VSub(P, ch.centre)) - ch.radius) <= Tol

Near(P, Q) == IsVec(P) /\ IsVec(Q) /\ Abs(P.x - Q.x) <= TangentTol /\ Abs(P.y - Q.y) <= TangentTol

\* C9: for two circles with distinct centres at distance d, intersection
\* returns None iff d > r0 + r1, raises iff d < |r0 - r1|, and otherwise returns
\* two points, each on both circles; at tangency (d = r0 + r1 or
\* d = |r0 - r1|) the two points are the one point of tangency.
C9_IntersectionCases ==
    (ret # Pending /\ circles[1].centre # circles[2].centre) =>
        LET d  == Norm(VSub(circles[2].centre, circles[1].centre))
            r0 == circles[1].radius
            r1 == circles[2].radius
        IN  /\ (ret.tag = "None") <=> (d > r0 + r1)
            /\ (ret.tag = "ValueError") <=> (d < Abs(r0 - r1))
            /\ (d <= r0 + r1 /\ d >= Abs(r0 - r1)) =>
                  /\ ret.tag = "pair"
                  /\ OnCircle(ret.p1, circles[1]) /\ OnCircle(ret.p1, circles[2])
                  /\ OnCircle(ret.p2, circles[1]) /\ OnCircle(ret.p2, circles[2])
            /\ (d = r0 + r1 \/ d = Abs(r0 - r1)) => Near(ret.p1, ret.p2)

=============================================================================
